---------------------------- MODULE Spec2Model ----------------------------
(***************************************************************************)
(* A model of the 2048 game component of src/App.tsx.                      *)
(*                                                                         *)
(* The program state is the React state of App: board, score, gameOver.    *)
(* The operations are initGame (mount effect, "New Game", "Try Again") and *)
(* move(direction) (arrow keys, swipes).  The pure helpers createEmptyBoard*)
(* addRandomTile, slideRowLeft, rotateBoard and isGameOver are operators   *)
(* computed the way the code computes them.                                *)
(*                                                                         *)
(* Indices: the code's arrays are 0-based, TLA+ sequences are 1-based, so  *)
(* the code's board[i][j] is board[i+1][j+1] here.                         *)
(***************************************************************************)
EXTENDS Integers, Sequences, FiniteSets, TLC

VARIABLES
    board,          \* useState<Board>, App.tsx:97
    score,          \* useState(0), App.tsx:98
    gameOver,       \* useState(false), App.tsx:100
    mounted,        \* the mount effects (initGame, keydown listener) have run
    last,           \* history: what the last operation was and did
    sessionDeltas,  \* history: sum of the merge scores of the accepted moves
                    \*          since the last initGame
    sessionSpawned, \* history: sum of the values of the tiles spawned since
                    \*          the last initGame
    steps,          \* number of operations explored so far
    topScore,       \* useState(0), App.tsx:99
    stored,         \* localStorage item 'topScore2048'
    effectDue,      \* a render is committed whose effects have not run yet
    closure,        \* the board and gameOver the current move callback captured
    pending,        \* state updates queued since the last render
    arg,            \* harness: the input a pure function is applied to
    ret             \* harness: what the function returned

vars == <<board, score, gameOver, mounted, last, sessionDeltas, sessionSpawned,
          steps, topScore, stored, effectDue, closure, pending, arg, ret>>

----------------------------------------------------------------------------
(* Program constants and bounds *)

GRID_SIZE == 4

\* Math.random() returns a real in [0,1); a draw n stands for n / RandDen.
RandDen == 10

\* The draws explored: 0/10 (first empty cell, value 2) and 9/10 (an empty
\* cell near the end of the list, value 4).
RandomDraws == {0, 9}

\* Operations explored per behaviour.
MaxSteps == 3

\* Row inputs hold 0 or 2^1 .. 2^MaxExp.
MaxExp == 3

\* Grid inputs differ from a base grid in at most MaxPerturb cells.
MaxPerturb == 2

\* Handler calls explored per behaviour of the best-score specification.
MaxBestSteps == 3

\* Input events explored per behaviour of the render specification.
MaxEvents == 2

Idx == 1..GRID_SIZE

Directions == {"left", "up", "right", "down"}

----------------------------------------------------------------------------
(* Pure helpers of App.tsx *)

\* App.tsx:117-119
createEmptyBoard == [i \in Idx |-> [j \in Idx |-> 0]]

\* The cells of a board in the order of the nested loops of addRandomTile
\* (row-major), as a sequence of <<i, j>>.
CellAt(k) == <<((k - 1) \div GRID_SIZE) + 1, ((k - 1) % GRID_SIZE) + 1>>

RECURSIVE CollectEmpty(_, _, _)
CollectEmpty(b, k, acc) ==
    IF k > GRID_SIZE * GRID_SIZE THEN acc
    ELSE LET c == CellAt(k)
         IN  CollectEmpty(b, k + 1,
                 IF b[c[1]][c[2]] = 0 THEN Append(acc, c) ELSE acc)

\* App.tsx:123-130
emptyCells(b) == CollectEmpty(b, 1, <<>>)

\* Math.floor(Math.random() * emptyCells.length), App.tsx:133
RandomIndex(r, len) == (r * len) \div RandDen

\* Math.random() < 0.9 ? 2 : 4, App.tsx:134
RandomValue(r) == IF r * 10 < 9 * RandDen THEN 2 ELSE 4

\* The mutant: picks among all cells, not among the empty ones.
addRandomTileAnyCell(currentBoard, rPos, rVal) ==
    LET c == CellAt(RandomIndex(rPos, GRID_SIZE * GRID_SIZE) + 1)
    IN  [currentBoard EXCEPT ![c[1]][c[2]] = RandomValue(rVal)]

\* App.tsx:121-137
addRandomTile(currentBoard, rPos, rVal) ==
    LET cells == emptyCells(currentBoard)
    IN  IF Len(cells) > 0
        THEN LET c == cells[RandomIndex(rPos, Len(cells)) + 1]
             IN  [currentBoard EXCEPT ![c[1]][c[2]] = RandomValue(rVal)]
        ELSE currentBoard

\* row.filter(val => val !== 0), App.tsx:153
filteredRow(row) == SelectSeq(row, LAMBDA v : v # 0)

\* The for loop of slideRowLeft, App.tsx:157-166: i is the (1-based) loop
\* index, skip the extra increment of i after a merge (the i++ of line 162).
\* merges counts the executions of the merge branch.
RECURSIVE SlideLoop(_, _, _, _)
SlideLoop(f, i, acc, skip) ==
    IF i > Len(f) THEN acc
    ELSE IF i + 1 <= Len(f) /\ f[i] = f[i + 1]
         THEN LET mergedValue == f[i] * 2
              IN  SlideLoop(f, i + 1 + skip,
                      [newRow      |-> Append(acc.newRow, mergedValue),
                       mergedScore |-> acc.mergedScore + mergedValue,
                       merges      |-> acc.merges + 1], skip)
         ELSE SlideLoop(f, i + 1,
                      [acc EXCEPT !.newRow = Append(acc.newRow, f[i])], skip)

\* while (newRow.length < size) newRow.push(0), App.tsx:168-170
RECURSIVE PadRow(_, _)
PadRow(r, size) == IF Len(r) < size THEN PadRow(Append(r, 0), size) ELSE r

SlideWith(row, skip, size) ==
    LET out == SlideLoop(filteredRow(row), 1,
                   [newRow |-> <<>>, mergedScore |-> 0, merges |-> 0], skip)
    IN  [out EXCEPT !.newRow = PadRow(out.newRow, size)]

\* The mutant: the i++ after a merge is missing.
slideRowLeftNoSkip(row) == SlideWith(row, 0, GRID_SIZE)

\* The mutant: the padding loop runs once too often.
slideRowLeftPadMore(row) == SlideWith(row, 1, GRID_SIZE + 1)

\* The mutant: the zeros are not filtered out before the loop.
slideRowLeftKeepsZeros(row) ==
    LET out == SlideLoop(row, 1,
                   [newRow |-> <<>>, mergedScore |-> 0, merges |-> 0], 1)
    IN  [out EXCEPT !.newRow = PadRow(out.newRow, GRID_SIZE)]

\* App.tsx:152-172
slideRowLeft(row) == SlideWith(row, 1, GRID_SIZE)

\* The mutant: the inner loop stops one column early.
rotateBoardShort(currentBoard) ==
    [i \in Idx |-> [j \in Idx |->
        IF j < GRID_SIZE THEN currentBoard[GRID_SIZE + 1 - j][i] ELSE 0]]

\* App.tsx:174-182: newBoard[i][j] = currentBoard[GRID_SIZE - 1 - j][i]
rotateBoard(currentBoard) ==
    [i \in Idx |-> [j \in Idx |-> currentBoard[GRID_SIZE + 1 - j][i]]]

RECURSIVE RotateTimes(_, _)
RotateTimes(b, n) == IF n = 0 THEN b ELSE RotateTimes(rotateBoard(b), n - 1)

\* App.tsx:189-193
Rotations(direction) ==
    CASE direction = "up"    -> 1
      [] direction = "right" -> 2
      [] direction = "down"  -> 3
      [] OTHER               -> 0

\* The mutant: the restore loop turns once per iteration, like the first loop.
RECURSIVE RestoreLoopOnce(_, _)
RestoreLoopOnce(b, n) ==
    IF n = 0 THEN b ELSE RestoreLoopOnce(rotateBoard(b), n - 1)

\* The restore loop of move, App.tsx:205-207: rotations iterations of three
\* rotateBoard calls.
RECURSIVE RestoreLoop(_, _)
RestoreLoop(b, n) ==
    IF n = 0 THEN b
    ELSE RestoreLoop(rotateBoard(rotateBoard(rotateBoard(b))), n - 1)

RECURSIVE SumSeq(_)
SumSeq(s) == IF s = <<>> THEN 0 ELSE Head(s) + SumSeq(Tail(s))

\* The slide part of move, App.tsx:187-207: tempBoard after the restore loop,
\* totalMergedScore, and the number of merges made.
slideBoard(b, direction) ==
    LET rotations == Rotations(direction)
        turned    == RotateTimes(b, rotations)
        slid      == [i \in Idx |-> slideRowLeft(turned[i])]
    IN  [tempBoard        |-> RestoreLoop([i \in Idx |-> slid[i].newRow], rotations),
         totalMergedScore |-> SumSeq([i \in Idx |-> slid[i].mergedScore]),
         merges           |-> SumSeq([i \in Idx |-> slid[i].merges])]

\* The mutant: the vertical neighbour is not compared.
isGameOverRowsOnly(currentBoard) ==
    \A i \in Idx : \A j \in Idx :
        /\ currentBoard[i][j] # 0
        /\ ~(j < GRID_SIZE /\ currentBoard[i][j] = currentBoard[i][j + 1])

\* App.tsx:221-230: false as soon as one cell is empty or equals its lower or
\* right neighbour, true otherwise.
isGameOver(currentBoard) ==
    \A i \in Idx : \A j \in Idx :
        /\ currentBoard[i][j] # 0
        /\ ~(i < GRID_SIZE /\ currentBoard[i][j] = currentBoard[i + 1][j])
        /\ ~(j < GRID_SIZE /\ currentBoard[i][j] = currentBoard[i][j + 1])


----------------------------------------------------------------------------
(* The component's operations, as transformers of its React state          *)
(* st = [board, score, gameOver]: the result is the state once the         *)
(* handler's setBoard / setScore / setGameOver calls are committed.        *)

\* The mutant: setGameOver(false) is missing.
initGameKeepsFlag(st, r1, r2, r3, r4) ==
    [st EXCEPT !.board = addRandomTile(addRandomTile(createEmptyBoard, r1, r2), r3, r4),
               !.score = 0]

\* The mutant: only one tile is seeded.
initGameOneTile(st, r1, r2, r3, r4) ==
    [board    |-> addRandomTile(createEmptyBoard, r1, r2),
     score    |-> 0,
     gameOver |-> FALSE]

\* App.tsx:139-146.  r1, r2 are the draws of the first addRandomTile call
\* (position, value), r3, r4 those of the second.
initGame(st, r1, r2, r3, r4) ==
    [board    |-> addRandomTile(addRandomTile(createEmptyBoard, r1, r2), r3, r4),
     score    |-> 0,
     gameOver |-> FALSE]

\* The body of move with three switches, all TRUE in the code:
\*   onlyIfChanged  the if (boardChanged) of line 211
\*   accumulate     setScore(prev => prev + totalMergedScore), line 214
\*   checkOver      the isGameOver test of lines 215-217
MoveWith(st, direction, rPos, rVal, onlyIfChanged, accumulate, checkOver) ==
    IF st.gameOver THEN st
    ELSE LET s            == slideBoard(st.board, direction)
             boardChanged == st.board # s.tempBoard
         IN  IF boardChanged \/ ~onlyIfChanged
             THEN LET newBoardWithTile == addRandomTile(s.tempBoard, rPos, rVal)
                  IN  [board    |-> newBoardWithTile,
                       score    |-> IF accumulate
                                    THEN st.score + s.totalMergedScore
                                    ELSE s.totalMergedScore,
                       gameOver |-> IF checkOver /\ isGameOver(newBoardWithTile)
                                    THEN TRUE ELSE st.gameOver]
             ELSE st

\* The mutant: the tile is spawned whether or not the board changed.
moveAlwaysSpawns(st, direction, rPos, rVal) ==
    MoveWith(st, direction, rPos, rVal, FALSE, TRUE, TRUE)

\* The mutant: setScore(totalMergedScore) instead of the functional update.
moveOverwritesScore(st, direction, rPos, rVal) ==
    MoveWith(st, direction, rPos, rVal, TRUE, FALSE, TRUE)

\* The mutant: the game-over test after the spawn is missing.
moveNeverEnds(st, direction, rPos, rVal) ==
    MoveWith(st, direction, rPos, rVal, TRUE, TRUE, FALSE)

\* App.tsx:184-219
move(st, direction, rPos, rVal) ==
    MoveWith(st, direction, rPos, rVal, TRUE, TRUE, TRUE)

----------------------------------------------------------------------------
(* History kept beside the state *)

NonZeroCount(b) ==
    Cardinality({c \in Idx \X Idx : b[c[1]][c[2]] # 0})

NoHistory ==
    [op |-> "construct", dir |-> "none", wasOver |-> FALSE, changed |-> FALSE,
     delta |-> 0, merges |-> 0, before |-> 0, spawned |-> 0]

\* A snapshot is the state with its history:
\* [st, last, sessionDeltas, sessionSpawned].
AfterInitGame(snap, r1, r2, r3, r4) ==
    [st            |-> initGame(snap.st, r1, r2, r3, r4),
     last          |-> [NoHistory EXCEPT !.op = "initGame",
                                         !.wasOver = snap.st.gameOver,
                                         !.before = NonZeroCount(snap.st.board),
                                         !.spawned = RandomValue(r2) + RandomValue(r4)],
     sessionDeltas  |-> 0,
     sessionSpawned |-> RandomValue(r2) + RandomValue(r4)]

\* A move is accepted (state-changing) when the game is not over and the
\* slide changes the grid.
AfterMove(snap, direction, rPos, rVal) ==
    LET s        == slideBoard(snap.st.board, direction)
        accepted == ~snap.st.gameOver /\ s.tempBoard # snap.st.board
        delta    == IF accepted THEN s.totalMergedScore ELSE 0
        spawned  == IF accepted /\ Len(emptyCells(s.tempBoard)) > 0
                    THEN RandomValue(rVal) ELSE 0
    IN  [st            |-> move(snap.st, direction, rPos, rVal),
         last          |-> [op      |-> "move",
                            dir     |-> direction,
                            wasOver |-> snap.st.gameOver,
                            changed |-> accepted,
                            delta   |-> delta,
                            merges  |-> IF accepted THEN s.merges ELSE 0,
                            before  |-> NonZeroCount(snap.st.board),
                            spawned |-> spawned],
         sessionDeltas  |-> snap.sessionDeltas + delta,
         sessionSpawned |-> snap.sessionSpawned + spawned]

Constructed ==
    [st            |-> [board |-> createEmptyBoard, score |-> 0, gameOver |-> FALSE],
     last          |-> NoHistory,
     sessionDeltas  |-> 0,
     sessionSpawned |-> 0]

----------------------------------------------------------------------------
(* Games in progress.  Exploring every game from its first move to a full  *)
(* grid is out of reach, so Init also holds a few games in progress: each  *)
(* is what initGame and move themselves produce along a fixed play, using  *)
(* draws of RandomDraws only.                                              *)

\* The draws of the initGame that starts the play.
PlayStart == <<9, 9, 9, 0>>

\* The moves of the play, <<direction, position draw, value draw>>; the
\* last one fills the grid with no two equal neighbours.
Play ==
    << <<"right", 9, 0>>, <<"down", 0, 9>>, <<"up", 0, 9>>,   <<"right", 9, 9>>,
       <<"right", 9, 0>>, <<"left", 0, 9>>, <<"left", 0, 0>>, <<"right", 0, 0>>,
       <<"left", 0, 9>>,  <<"right", 9, 9>>, <<"left", 9, 0>>, <<"up", 0, 9>>,
       <<"right", 9, 0>>, <<"left", 0, 0>>, <<"right", 0, 9>> >>

RECURSIVE Replay(_)
Replay(n) ==
    IF n = 0
    THEN AfterInitGame(Constructed, PlayStart[1], PlayStart[2], PlayStart[3], PlayStart[4])
    ELSE AfterMove(Replay(n - 1), Play[n][1], Play[n][2], Play[n][3])

\* How many moves of the play have been made in the games Init holds.
PlayPrefixes == {6, Len(Play) - 2, Len(Play) - 1}

----------------------------------------------------------------------------
(* The game.  Each handler is one step: it reads the committed state and  *)
(* its set calls are committed before the next handler runs.  All actions  *)
(* count in steps, also a move that changes nothing.                       *)

Current ==
    [st            |-> [board |-> board, score |-> score, gameOver |-> gameOver],
     last          |-> last,
     sessionDeltas  |-> sessionDeltas,
     sessionSpawned |-> sessionSpawned]

Commit(snap) ==
    /\ board' = snap.st.board
    /\ score' = snap.st.score
    /\ gameOver' = snap.st.gameOver
    /\ last' = snap.last
    /\ sessionDeltas' = snap.sessionDeltas
    /\ sessionSpawned' = snap.sessionSpawned

HarnessIdle == arg = <<>> /\ ret = [op |-> "none"]

\* The part of the component that the game specification leaves out: the
\* best score and its storage, and the renders between the handlers.
ReactVars == <<topScore, stored, effectDue, closure, pending>>

NoItem == [present |-> FALSE, text |-> <<>>]

ReactIdle ==
    /\ topScore = 0
    /\ stored = NoItem
    /\ effectDue = FALSE
    /\ closure = [board |-> createEmptyBoard, gameOver |-> FALSE]
    /\ pending = <<>>

\* The state after construction (useState initial values, App.tsx:97-100),
\* or a game in progress.
Init ==
    /\ \E from \in {[snap |-> Constructed, mounted |-> FALSE]}
                   \cup {[snap |-> Replay(n), mounted |-> TRUE] : n \in PlayPrefixes} :
          /\ board = from.snap.st.board
          /\ score = from.snap.st.score
          /\ gameOver = from.snap.st.gameOver
          /\ last = from.snap.last
          /\ sessionDeltas = from.snap.sessionDeltas
          /\ sessionSpawned = from.snap.sessionSpawned
          /\ mounted = from.mounted
    /\ steps = 0
    /\ ReactIdle
    /\ HarnessIdle

\* initGame runs in the mount effect (App.tsx:148-150) and on a click of
\* "New Game" (line 298) or "Try Again" (line 305).
InitGame ==
    /\ steps < MaxSteps
    /\ \E r1 \in RandomDraws, r2 \in RandomDraws, r3 \in RandomDraws, r4 \in RandomDraws :
          Commit(AfterInitGame(Current, r1, r2, r3, r4))
    /\ mounted' = TRUE
    /\ steps' = steps + 1
    /\ UNCHANGED <<arg, ret, ReactVars>>

\* move runs from the keydown listener and the touch handler, which exist
\* once the component is mounted (App.tsx:249-254, 284).
Move ==
    /\ mounted
    /\ steps < MaxSteps
    /\ \E d \in Directions, rPos \in RandomDraws, rVal \in RandomDraws :
          Commit(AfterMove(Current, d, rPos, rVal))
    /\ steps' = steps + 1
    /\ UNCHANGED <<mounted, arg, ret, ReactVars>>

Next == InitGame \/ Move

Spec == Init /\ [][Next]_vars

----------------------------------------------------------------------------
(* Harness for slideRowLeft: every row of GRID_SIZE cells over 0 and the   *)
(* powers of two up to 2^MaxExp.                                           *)

RECURSIVE Pow2(_)
Pow2(k) == IF k = 0 THEN 1 ELSE 2 * Pow2(k - 1)

RowValues == {0} \cup {Pow2(k) : k \in 1..MaxExp}

Rows == [Idx -> RowValues]

GameIdle ==
    /\ board = Constructed.st.board
    /\ score = Constructed.st.score
    /\ gameOver = Constructed.st.gameOver
    /\ last = Constructed.last
    /\ sessionDeltas = Constructed.sessionDeltas
    /\ sessionSpawned = Constructed.sessionSpawned
    /\ mounted = FALSE
    /\ steps = 0
    /\ ReactIdle

GameVars == <<board, score, gameOver, mounted, last, sessionDeltas, sessionSpawned,
              steps, ReactVars>>

RowInit ==
    /\ GameIdle
    /\ arg \in Rows
    /\ ret = [op |-> "none"]

CallSlideRowLeft ==
    /\ ret.op = "none"
    /\ ret' = [op |-> "slideRowLeft", out |-> slideRowLeft(arg)]
    /\ UNCHANGED <<arg, GameVars>>

RowNext == CallSlideRowLeft

RowSpec == RowInit /\ [][RowNext]_vars

----------------------------------------------------------------------------
(* Harness for rotateBoard, isGameOver and the slide of move: the grids    *)
(* that differ in at most MaxPerturb cells from the empty grid or from the *)
(* full grid of alternating 2 and 4.                                       *)

Cells == Idx \X Idx

Checker == [i \in Idx |-> [j \in Idx |-> IF (i + j) % 2 = 0 THEN 2 ELSE 4]]

\* What a changed cell holds instead of v.
Changed(v, how) ==
    CASE how = "two"    -> 2
      [] how = "four"   -> 4
      [] how = "hole"   -> 0
      [] how = "other"  -> 6 - v
      [] how = "double" -> 2 * v

Perturbed(base, hows) ==
    UNION {{[i \in Idx |-> [j \in Idx |->
                IF <<i, j>> \in S THEN Changed(base[i][j], f[<<i, j>>])
                ELSE base[i][j]]] : f \in [S -> hows]} :
           S \in {T \in SUBSET Cells : Cardinality(T) <= MaxPerturb}}

Grids ==
    Perturbed(createEmptyBoard, {"two", "four"})
        \cup Perturbed(Checker, {"hole", "other", "double"})

GridInit ==
    /\ GameIdle
    /\ arg \in Grids
    /\ ret = [op |-> "none"]

\* rotateBoard applied to the grid, and again to its result, up to 4 times.
CallRotateBoard ==
    /\ \/ /\ ret.op = "none"
          /\ ret' = [op |-> "rotateBoard", times |-> 1, out |-> rotateBoard(arg)]
       \/ /\ ret.op = "rotateBoard"
          /\ ret.times < 4
          /\ ret' = [op |-> "rotateBoard", times |-> ret.times + 1,
                     out |-> rotateBoard(ret.out)]
    /\ UNCHANGED <<arg, GameVars>>

\* isGameOver applied to the grid, and the slide of move in each direction.
CallIsGameOver ==
    /\ ret.op = "none"
    /\ ret' = [op      |-> "isGameOver",
               out     |-> isGameOver(arg),
               changes |-> {d \in Directions : slideBoard(arg, d).tempBoard # arg}]
    /\ UNCHANGED <<arg, GameVars>>

\* The restore loop of move alone, and after the rotations it undoes.
CallRestoreLoop ==
    /\ ret.op = "none"
    /\ \E d \in Directions :
          ret' = [op        |-> "restoreLoop",
                  rotations |-> Rotations(d),
                  out       |-> RestoreLoop(arg, Rotations(d)),
                  round     |-> RestoreLoop(RotateTimes(arg, Rotations(d)), Rotations(d))]
    /\ UNCHANGED <<arg, GameVars>>

\* The slide of move: tempBoard before the spawn.
CallSlideBoard ==
    /\ ret.op = "none"
    /\ \E d \in Directions :
          ret' = [op        |-> "slideBoard",
                  direction |-> d,
                  out       |-> slideBoard(arg, d).tempBoard]
    /\ UNCHANGED <<arg, GameVars>>

GridNext == CallRotateBoard \/ CallIsGameOver \/ CallRestoreLoop \/ CallSlideBoard

GridSpec == GridInit /\ [][GridNext]_vars

----------------------------------------------------------------------------
(* Reference definitions used by the claims *)

\* Remove the zeros of a sequence, keeping the order.
RECURSIVE Compact(_)
Compact(s) ==
    IF s = <<>> THEN <<>>
    ELSE IF Head(s) = 0 THEN Compact(Tail(s))
         ELSE <<Head(s)>> \o Compact(Tail(s))

\* Scan left to right; two equal consecutive values become one of twice the
\* value and the scan goes on after the partner.
RECURSIVE MergeOnce(_)
MergeOnce(s) ==
    IF Len(s) < 2 THEN s
    ELSE IF s[1] = s[2] THEN <<2 * s[1]>> \o MergeOnce(Tail(Tail(s)))
         ELSE <<s[1]>> \o MergeOnce(Tail(s))

\* The sum of the values the scan creates.
RECURSIVE MergeGain(_)
MergeGain(s) ==
    IF Len(s) < 2 THEN 0
    ELSE IF s[1] = s[2] THEN 2 * s[1] + MergeGain(Tail(Tail(s)))
         ELSE MergeGain(Tail(s))

ZeroPadded(s) == s \o [k \in 1..(GRID_SIZE - Len(s)) |-> 0]

\* No empty cell and no two horizontally or vertically adjacent equal cells.
Terminal(b) ==
    /\ \A c \in Cells : b[c[1]][c[2]] # 0
    /\ \A c \in Cells, d \in Cells :
          (c[1] - d[1]) * (c[1] - d[1]) + (c[2] - d[2]) * (c[2] - d[2]) = 1
              => b[c[1]][c[2]] # b[d[1]][d[2]]

RECURSIVE IsPowerOfTwo(_)
IsPowerOfTwo(n) == n = 2 \/ (n > 2 /\ n % 2 = 0 /\ IsPowerOfTwo(n \div 2))

----------------------------------------------------------------------------
(* Claims *)

\* C1: slideRowLeft never chain-merges.  For every row, the row it returns
\* is the row with its zeros removed, equal neighbours merged once from the
\* left (the scan skipping the partner), padded with zeros, and its score is
\* the sum of the merged values; [2,2,2,2] gives [4,4,0,0] and 8, [0,0,2,2]
\* gives [4,0,0,0] and 4.
C1_NoChainMerge ==
    ret.op = "slideRowLeft" =>
        /\ ret.out.newRow = ZeroPadded(MergeOnce(Compact(arg)))
        /\ ret.out.mergedScore = MergeGain(Compact(arg))
        /\ arg = <<2, 2, 2, 2>> =>
              ret.out.newRow = <<4, 4, 0, 0>> /\ ret.out.mergedScore = 8
        /\ arg = <<0, 0, 2, 2>> =>
              ret.out.newRow = <<4, 0, 0, 0>> /\ ret.out.mergedScore = 4

C1_Witness ==
    /\ ret.op = "slideRowLeft"
    /\ arg = <<2, 2, 2, 2>>
    /\ ret.out.newRow = <<4, 4, 0, 0>>
    /\ ret.out.mergedScore = 8

\* C4 as stated: for every grid, isGameOver holds exactly when no move in
\* any of the four directions changes the grid.
C4_AsStated ==
    ret.op = "isGameOver" => (ret.out <=> ret.changes = {})

\* C4, amended: for every grid with at least one tile, isGameOver holds
\* exactly when the grid has no empty cell and no two adjacent equal cells,
\* and exactly when no move in any of the four directions changes the grid.
C4_TerminalIffStuck ==
    ret.op = "isGameOver" =>
        /\ ret.out <=> Terminal(arg)
        /\ arg # createEmptyBoard => (ret.out <=> ret.changes = {})

C4_Witness ==
    /\ ret.op = "isGameOver"
    /\ ret.out
    /\ ret.changes = {}
    /\ arg # Checker

\* C10: rotateBoard applied 4 times to a grid returns the grid.
C10_FourRotations ==
    (ret.op = "rotateBoard" /\ ret.times = 4) => ret.out = arg

C10_Witness ==
    /\ ret.op = "rotateBoard"
    /\ ret.times = 4
    /\ ret.out = arg
    /\ rotateBoard(arg) # arg
    /\ rotateBoard(rotateBoard(arg)) # arg


StateVars == <<board, score, gameOver>>

\* The step is a call of move in direction d.
IsMove(d) == last'.op = "move" /\ last'.dir = d

\* C2: a state-changing move leaves (tiles before) - (merged pairs) + 1
\* tiles: the grid after the move is the slid grid with one cell that the
\* slide left empty holding a new 2 or 4, so the slid grid of a
\* state-changing move always has an empty cell.
C2_OneTileSpawned ==
    [][\A d \in Directions :
          LET s == slideBoard(board, d)
          IN  (IsMove(d) /\ ~gameOver /\ s.tempBoard # board) =>
                 /\ NonZeroCount(board') = NonZeroCount(board) - s.merges + 1
                 /\ NonZeroCount(s.tempBoard) = NonZeroCount(board) - s.merges
                 /\ \E c \in Cells :
                       /\ s.tempBoard[c[1]][c[2]] = 0
                       /\ board'[c[1]][c[2]] \in {2, 4}
                       /\ \A e \in Cells \ {c} :
                             board'[e[1]][e[2]] = s.tempBoard[e[1]][e[2]]
      ]_vars

C2_Witness ==
    /\ last.op = "move"
    /\ last.changed
    /\ last.merges >= 2
    /\ NonZeroCount(board) = last.before - last.merges + 1

\* C3: a move whose slide leaves the grid as it was changes neither the
\* grid nor the score nor the game-over flag, and spawns no tile.
C3_NoOpMove ==
    [][\A d \in Directions :
          (IsMove(d) /\ slideBoard(board, d).tempBoard = board) =>
              UNCHANGED StateVars
      ]_vars

C3_Witness ==
    /\ last.op = "move"
    /\ ~last.wasOver
    /\ ~last.changed
    /\ NonZeroCount(board) = last.before
    /\ NonZeroCount(board) < GRID_SIZE * GRID_SIZE

\* C5: in every reachable state the game-over flag is true exactly when the
\* grid has no empty cell and no two adjacent equal cells.
C5_FlagIffTerminal == gameOver <=> Terminal(board)

C5_Witness ==
    /\ gameOver
    /\ Terminal(board)
    /\ last.op = "move"
    /\ last.changed

\* C6: once the game-over flag is true a move changes neither grid, score
\* nor flag; the state changes only by initGame, which leaves the flag
\* false, the score 0 and a grid of two tiles.
C6_TerminalAbsorbing ==
    [][gameOver =>
          /\ last'.op = "move" => UNCHANGED StateVars
          /\ StateVars' # StateVars => last'.op = "initGame"
          /\ last'.op = "initGame" =>
                /\ ~gameOver'
                /\ score' = 0
                /\ NonZeroCount(board') = 2
      ]_vars

C6_Witness ==
    /\ gameOver
    /\ last.op = "move"
    /\ last.wasOver

\* C7: the score is the sum of the merge scores of the state-changing moves
\* made since the last initGame.
C7_ScoreIsSumOfDeltas == score = sessionDeltas

C7_Witness ==
    /\ last.op = "move"
    /\ last.changed
    /\ last.delta > 0
    /\ score > last.delta
    /\ steps >= 2

\* C8: the grid is always 4x4 and every cell is 0 or a power of two that is
\* at least 2.
C8_GridWellFormed ==
    /\ DOMAIN board = Idx
    /\ \A i \in Idx :
          /\ DOMAIN board[i] = Idx
          /\ \A j \in Idx : board[i][j] = 0 \/ IsPowerOfTwo(board[i][j])

C8_Witness ==
    /\ last.op = "move"
    /\ last.changed
    /\ last.delta >= 16
    /\ \E c \in Cells : board[c[1]][c[2]] >= 16

\* C9: after initGame, from any state, the grid holds exactly two tiles,
\* each 2 or 4, the score is 0 and the game-over flag is false.
C9_FreshSession ==
    last.op = "initGame" =>
        /\ NonZeroCount(board) = 2
        /\ \A c \in Cells : board[c[1]][c[2]] \in {0, 2, 4}
        /\ score = 0
        /\ ~gameOver

C9_Witness ==
    /\ last.op = "initGame"
    /\ last.wasOver
    /\ NonZeroCount(board) = 2
    /\ ~gameOver


\* out is what is left of the non-empty sequence in when some pairs of equal
\* neighbours are each replaced by their sum and nothing else changes.
RECURSIVE PairsSummed(_, _)
PairsSummed(out, in) ==
    IF in = <<>> THEN out = <<>>
    ELSE /\ out # <<>>
         /\ \/ Head(out) = Head(in) /\ PairsSummed(Tail(out), Tail(in))
            \/ /\ Len(in) >= 2
               /\ in[1] = in[2]
               /\ Head(out) = in[1] + in[2]
               /\ PairsSummed(Tail(out), Tail(Tail(in)))

\* C11: the row slideRowLeft returns has length 4, its non-zero values come
\* before its zeros, it has at most as many non-zero values as the input,
\* and they are the input's non-zero values in order with some pairs of
\* equal neighbours replaced by their sum.
C11_RowShape ==
    ret.op = "slideRowLeft" =>
        LET out == ret.out.newRow
        IN  /\ Len(out) = GRID_SIZE
            /\ \A i \in 1..(GRID_SIZE - 1) : out[i] = 0 => out[i + 1] = 0
            /\ Len(filteredRow(out)) <= Len(filteredRow(arg))
            /\ PairsSummed(filteredRow(out), filteredRow(arg))

C11_Witness ==
    /\ ret.op = "slideRowLeft"
    /\ arg = <<2, 0, 2, 4>>
    /\ ret.out.newRow = <<4, 4, 0, 0>>


\* C13: no call of move, accepted, without effect or rejected, lowers the
\* score.
C13_ScoreNeverDecreases ==
    [][last'.op = "move" => score' >= score]_vars

C13_Witness ==
    /\ last.op = "move"
    /\ last.changed
    /\ last.delta >= 8
    /\ score >= last.delta + 8


\* No empty cell of b lies between a tile and the edge the direction names,
\* row 1 being the top row and column 1 the left column.
PackedToward(b, direction) ==
    CASE direction = "left" ->
             \A i \in Idx, j \in 1..(GRID_SIZE - 1) : b[i][j] = 0 => b[i][j + 1] = 0
      [] direction = "right" ->
             \A i \in Idx, j \in 1..(GRID_SIZE - 1) : b[i][j + 1] = 0 => b[i][j] = 0
      [] direction = "up" ->
             \A i \in 1..(GRID_SIZE - 1), j \in Idx : b[i][j] = 0 => b[i + 1][j] = 0
      [] direction = "down" ->
             \A i \in 1..(GRID_SIZE - 1), j \in Idx : b[i + 1][j] = 0 => b[i][j] = 0

\* C14: the slide of move(direction) packs the tiles toward the edge the
\* direction names: left toward column 0, right toward column 3, up toward
\* row 0 (the top row), down toward row 3.
C14_PacksTowardNamedEdge ==
    ret.op = "slideBoard" => PackedToward(ret.out, ret.direction)

\* C16: the restore loop for k rotations has the effect of (4 - k) mod 4
\* calls of rotateBoard, and it undoes the k rotations.
C16_RestoreLoopInverts ==
    ret.op = "restoreLoop" =>
        /\ ret.out = RotateTimes(arg, (4 - ret.rotations) % 4)
        /\ ret.round = arg

C16_Witness ==
    /\ ret.op = "restoreLoop"
    /\ ret.rotations = 3
    /\ ret.out = rotateBoard(arg)
    /\ ret.round = arg
    /\ rotateBoard(arg) # arg


SumBoard(b) == SumSeq([i \in Idx |-> SumSeq(b[i])])

\* C18: slideRowLeft keeps the sum of a row, a state-changing move raises
\* the sum of the cells by the value of the tile it spawns, 2 or 4, and the
\* sum of the cells is the sum of the values of the tiles spawned since the
\* last initGame.
C18_MassConserved ==
    /\ SumBoard(board) = sessionSpawned
    /\ \A i \in Idx : SumSeq(slideRowLeft(board[i]).newRow) = SumSeq(board[i])
    /\ (last.op = "move" /\ last.changed) =>
          /\ last.spawned \in {2, 4}
          /\ \A d \in Directions : SumBoard(slideBoard(board, d).tempBoard) = SumBoard(board)

C18_Witness ==
    /\ last.op = "move"
    /\ last.changed
    /\ last.merges >= 1
    /\ last.spawned = 4
    /\ SumBoard(board) = sessionSpawned
    /\ sessionSpawned >= 20


----------------------------------------------------------------------------
(* Harness for the input handlers: a key press, then a touch gesture, on   *)
(* the same grid.  What a handler does is the sequence of directions it    *)
(* calls move with.                                                        *)

Keys == {"ArrowUp", "ArrowDown", "ArrowLeft", "ArrowRight", "Enter"}

\* App.tsx:232-247
handleKeyDown(key) ==
    CASE key = "ArrowUp"    -> <<"down">>
      [] key = "ArrowDown"  -> <<"up">>
      [] key = "ArrowLeft"  -> <<"left">>
      [] key = "ArrowRight" -> <<"right">>
      [] OTHER              -> <<>>

Abs(n) == IF n < 0 THEN -n ELSE n

Max(a, b) == IF a > b THEN a ELSE b

\* App.tsx:262-280.  touchStart.set is FALSE for the null of line 101.
handleTouchEnd(touchStart, changedTouches) ==
    IF touchStart.set /\ Len(changedTouches) = 1
    THEN LET dx    == changedTouches[1].x - touchStart.x
             dy    == changedTouches[1].y - touchStart.y
             absDx == Abs(dx)
             absDy == Abs(dy)
         IN  IF Max(absDx, absDy) > 30
             THEN IF absDx > absDy
                  THEN <<IF dx > 0 THEN "right" ELSE "left">>
                  ELSE <<IF dy > 0 THEN "down" ELSE "up">>
             ELSE <<>>
    ELSE <<>>

\* The grid after the slides of the moves a handler dispatched.
RECURSIVE Slides(_, _)
Slides(b, moves) ==
    IF moves = <<>> THEN b
    ELSE Slides(slideBoard(b, Head(moves)).tempBoard, Tail(moves))

\* The grids of the play, from its initGame to its last move.
InputGrids == {Replay(n).st.board : n \in 0..Len(Play)}

Coordinates == {10, 20, 50, 80, 90}

TouchStarts == {[set |-> FALSE, x |-> 0, y |-> 0], [set |-> TRUE, x |-> 50, y |-> 50]}

TouchLists ==
    {<<[x |-> px, y |-> py]>> : px \in Coordinates, py \in Coordinates}
        \cup {<<[x |-> 10, y |-> 10], [x |-> 90, y |-> 90]>>}

InputInit ==
    /\ GameIdle
    /\ arg \in InputGrids
    /\ ret = [op |-> "none"]

KeyDown ==
    /\ ret.op = "none"
    /\ \E key \in Keys :
          ret' = [op       |-> "keydown",
                  key      |-> key,
                  keyMoves |-> handleKeyDown(key),
                  keyOut   |-> Slides(arg, handleKeyDown(key))]
    /\ UNCHANGED <<arg, GameVars>>

TouchEnd ==
    /\ ret.op = "keydown"
    /\ \E touchStart \in TouchStarts, changedTouches \in TouchLists :
          ret' = [op         |-> "touchend",
                  key        |-> ret.key,
                  keyMoves   |-> ret.keyMoves,
                  keyOut     |-> ret.keyOut,
                  touchStart |-> touchStart,
                  touches    |-> changedTouches,
                  swipeMoves |-> handleTouchEnd(touchStart, changedTouches),
                  swipeOut   |-> Slides(arg, handleTouchEnd(touchStart, changedTouches))]
    /\ UNCHANGED <<arg, GameVars>>

InputNext == KeyDown \/ TouchEnd

InputSpec == InputInit /\ [][InputNext]_vars

\* The screen direction of an arrow key.
KeyScreenDirection(key) ==
    CASE key = "ArrowUp"    -> "up"
      [] key = "ArrowDown"  -> "down"
      [] key = "ArrowLeft"  -> "left"
      [] key = "ArrowRight" -> "right"
      [] OTHER              -> "none"

\* The screen direction of a gesture of one touch: the axis of the larger
\* displacement, when it is over 30; clientY decreases toward the top.
SwipeScreenDirection(touchStart, changedTouches) ==
    IF touchStart.set /\ Len(changedTouches) = 1
    THEN LET dx == changedTouches[1].x - touchStart.x
             dy == changedTouches[1].y - touchStart.y
         IN  CASE Abs(dx) > Abs(dy) /\ Abs(dx) > 30 -> IF dx > 0 THEN "right" ELSE "left"
               [] Abs(dy) > Abs(dx) /\ Abs(dy) > 30 -> IF dy > 0 THEN "down" ELSE "up"
               [] OTHER -> "none"
    ELSE "none"

\* C15: an arrow key and a qualifying swipe in the same screen direction
\* each dispatch exactly one move, and the two moves slide the grid the same
\* way.
C15_KeyAndSwipeAgree ==
    (/\ ret.op = "touchend"
     /\ KeyScreenDirection(ret.key) # "none"
     /\ SwipeScreenDirection(ret.touchStart, ret.touches) = KeyScreenDirection(ret.key))
        => /\ Len(ret.keyMoves) = 1
           /\ Len(ret.swipeMoves) = 1
           /\ ret.swipeOut = ret.keyOut


----------------------------------------------------------------------------
(* The best score.  The state is a committed render; a handler and the     *)
(* commit of its updates are one step, and the effects of a commit run, on *)
(* the values of that commit, before the next commit.                      *)

DigitChars == <<"0", "1", "2", "3", "4", "5", "6", "7", "8", "9">>

\* score.toString(), App.tsx:113, for a score >= 0: the decimal digits.
RECURSIVE toDecimalString(_)
toDecimalString(n) ==
    IF n < 10 THEN <<DigitChars[n + 1]>>
    ELSE toDecimalString(n \div 10) \o <<DigitChars[(n % 10) + 1]>>

DigitValue(ch) == CHOOSE d \in 0..9 : DigitChars[d + 1] = ch

\* parseInt(text, 10), App.tsx:106, for a text of decimal digits.
RECURSIVE ParseDigits(_, _)
ParseDigits(text, acc) ==
    IF text = <<>> THEN acc
    ELSE ParseDigits(Tail(text), 10 * acc + DigitValue(Head(text)))

parseInt(text) == ParseDigits(text, 0)

\* The effect of App.tsx:103-108 on bs = [topScore, stored]: a stored text
\* that is not empty is parsed into topScore.
loadEffect(bs) ==
    IF bs.stored.present /\ bs.stored.text # <<>>
    THEN [bs EXCEPT !.topScore = parseInt(bs.stored.text)]
    ELSE bs

\* The mutant: the test score > topScore is missing.
trackEffectUnguarded(sc, bs) ==
    [topScore |-> sc, stored |-> [present |-> TRUE, text |-> toDecimalString(sc)]]

\* The effect of App.tsx:110-115, run on the score and topScore of a commit.
trackEffect(sc, bs) ==
    IF sc > bs.topScore
    THEN [topScore |-> sc, stored |-> [present |-> TRUE, text |-> toDecimalString(sc)]]
    ELSE bs

Best == [topScore |-> topScore, stored |-> stored]

\* What localStorage may hold at startup: nothing, or a score written by an
\* earlier run.
StoredAtStart == {NoItem} \cup {[present |-> TRUE, text |-> toDecimalString(n)] : n \in {0, 4, 12}}

\* The position draw of the best-score specification: the first empty cell.
BestPositionDraws == {0}

BestInit ==
    /\ board = Constructed.st.board
    /\ score = Constructed.st.score
    /\ gameOver = Constructed.st.gameOver
    /\ last = Constructed.last
    /\ sessionDeltas = Constructed.sessionDeltas
    /\ sessionSpawned = Constructed.sessionSpawned
    /\ mounted = FALSE
    /\ steps = 0
    /\ topScore = 0
    /\ stored \in StoredAtStart
    /\ effectDue = FALSE
    /\ closure = [board |-> createEmptyBoard, gameOver |-> FALSE]
    /\ pending = <<>>
    /\ HarnessIdle

BestFrame == UNCHANGED <<closure, pending, arg, ret>>

\* The effects of the first commit, in the order of the source: the load
\* effect, the track effect (on score 0 and topScore 0) and initGame.  The
\* next commit holds the loaded topScore and the seeded game.
BestMount ==
    /\ ~mounted
    /\ steps < MaxBestSteps
    /\ LET loaded  == loadEffect(Best)
           tracked == trackEffect(score, Best)
       IN  /\ topScore' = loaded.topScore
           /\ stored' = tracked.stored
    /\ \E r2 \in RandomDraws, r4 \in RandomDraws :
       \E r1 \in BestPositionDraws, r3 \in BestPositionDraws :
          Commit(AfterInitGame(Current, r1, r2, r3, r4))
    /\ mounted' = TRUE
    /\ effectDue' = TRUE
    /\ steps' = steps + 1
    /\ BestFrame

\* "New Game" or "Try Again".
BestRestart ==
    /\ mounted
    /\ ~effectDue
    /\ steps < MaxBestSteps
    /\ \E r2 \in RandomDraws, r4 \in RandomDraws :
       \E r1 \in BestPositionDraws, r3 \in BestPositionDraws :
          Commit(AfterInitGame(Current, r1, r2, r3, r4))
    /\ effectDue' = (score' # score)
    /\ steps' = steps + 1
    /\ UNCHANGED <<mounted, topScore, stored>>
    /\ BestFrame

BestMove ==
    /\ mounted
    /\ ~effectDue
    /\ steps < MaxBestSteps
    /\ \E d \in Directions, rPos \in BestPositionDraws, rVal \in RandomDraws :
          Commit(AfterMove(Current, d, rPos, rVal))
    /\ effectDue' = (score' # score)
    /\ steps' = steps + 1
    /\ UNCHANGED <<mounted, topScore, stored>>
    /\ BestFrame

\* The track effect runs after a commit that changed score or topScore; when
\* it sets topScore, the commit of that update runs it once more.
TrackScore ==
    /\ effectDue
    /\ LET tracked == trackEffect(score, Best)
       IN  /\ topScore' = tracked.topScore
           /\ stored' = tracked.stored
           /\ effectDue' = (tracked.topScore # topScore)
    /\ UNCHANGED <<board, score, gameOver, mounted, last, sessionDeltas,
                   sessionSpawned, steps>>
    /\ BestFrame

BestNext == BestMount \/ BestRestart \/ BestMove \/ TrackScore

BestSpec == BestInit /\ [][BestNext]_vars

\* C12: the best score never decreases, by a move, a restart or an effect;
\* once the effects of a commit have run the best score is at least the
\* score, and localStorage holds the best score as soon as a score has
\* exceeded what it held.
C12_BestScore ==
    [][/\ topScore' >= topScore
       /\ (mounted' /\ ~effectDue') =>
             /\ topScore' >= score'
             /\ IF stored'.present
                THEN stored'.text = toDecimalString(topScore') /\ parseInt(stored'.text) = topScore'
                ELSE topScore' = 0
       /\ (effectDue /\ score > topScore) =>
             topScore' = score /\ stored'.text = toDecimalString(score)
      ]_vars

C12_Witness ==
    /\ mounted
    /\ ~effectDue
    /\ last.op = "initGame"
    /\ score = 0
    /\ topScore = 8
    /\ stored = [present |-> TRUE, text |-> <<"8">>]


----------------------------------------------------------------------------
(* Renders.  move is a useCallback over [board, gameOver] (App.tsx:219):   *)
(* a call reads the board and gameOver of the render that created the      *)
(* callback, and queues setBoard(value), setScore(prev => prev + total)    *)
(* and setGameOver(true).  The queue is applied by the next render, which  *)
(* creates the callback anew.  An entry of pending is the updates of one   *)
(* call: [board, total, over].                                             *)

Captured == [board |-> closure.board, score |-> 0, gameOver |-> closure.gameOver]

\* The updates one call of move queues: none when it returns early or the
\* board did not change.
QueuedBy(direction, rPos, rVal) ==
    LET r == move(Captured, direction, rPos, rVal)
    IN  IF r.board = closure.board THEN <<>>
        ELSE << [board |-> r.board,
                 total |-> r.score,
                 over  |-> r.gameOver] >>

RECURSIVE SumTotals(_)
SumTotals(q) == IF q = <<>> THEN 0 ELSE Head(q).total + SumTotals(Tail(q))

\* The state after the queue is applied in order: the last setBoard value,
\* every functional score update, any setGameOver(true).
Rendered(st, q) ==
    IF q = <<>> THEN st
    ELSE [board    |-> q[Len(q)].board,
          score    |-> st.score + SumTotals(q),
          gameOver |-> st.gameOver \/ \E k \in 1..Len(q) : q[k].over]

\* A mounted game, rendered, with nothing queued.
RenderInit ==
    /\ \E n \in {0} \cup PlayPrefixes :
          /\ board = Replay(n).st.board
          /\ score = Replay(n).st.score
          /\ gameOver = Replay(n).st.gameOver
          /\ last = Replay(n).last
          /\ sessionDeltas = Replay(n).sessionDeltas
          /\ sessionSpawned = Replay(n).sessionSpawned
          /\ closure = [board |-> Replay(n).st.board, gameOver |-> Replay(n).st.gameOver]
    /\ mounted = TRUE
    /\ steps = 0
    /\ topScore = 0
    /\ stored = NoItem
    /\ effectDue = FALSE
    /\ pending = <<>>
    /\ HarnessIdle

\* An input event is handled: handleKeyDown or handleTouchEnd calls the
\* move callback of the last render.
InputEvent ==
    /\ steps < MaxEvents
    /\ \E d \in Directions, rPos \in RandomDraws, rVal \in RandomDraws :
          pending' = pending \o QueuedBy(d, rPos, rVal)
    /\ steps' = steps + 1
    /\ UNCHANGED <<board, score, gameOver, mounted, last, sessionDeltas,
                   sessionSpawned, topScore, stored, effectDue, closure, arg, ret>>

\* The component re-renders: the queue is applied and move is created anew.
\* The history counts the total of the call whose board is committed.
Render ==
    /\ pending # <<>>
    /\ LET st == Rendered([board |-> board, score |-> score, gameOver |-> gameOver],
                          pending)
       IN  /\ board' = st.board
           /\ score' = st.score
           /\ gameOver' = st.gameOver
           /\ closure' = [board |-> st.board, gameOver |-> st.gameOver]
    /\ sessionDeltas' = sessionDeltas + pending[Len(pending)].total
    /\ last' = [NoHistory EXCEPT !.op = "render",
                                 !.wasOver = gameOver,
                                 !.changed = TRUE,
                                 !.delta = pending[Len(pending)].total,
                                 !.before = NonZeroCount(board)]
    /\ pending' = <<>>
    /\ UNCHANGED <<mounted, sessionSpawned, steps, topScore, stored, effectDue,
                   arg, ret>>

RenderNext == InputEvent \/ Render

RenderSpec == RenderInit /\ [][RenderNext]_vars

\* C17: every call of move computes from the committed board, so no call is
\* made while the board of an earlier call is still queued, and after a
\* render the score is the sum of the totals of the calls whose boards were
\* committed, also when two input events are handled before the render.
C17_MovesSerialized ==
    /\ Len(pending) <= 1
    /\ pending = <<>> => score = sessionDeltas

=============================================================================
